---- MODULE Spec2Model ----
(***************************************************************************)
(* Model of the submission admission pipeline of src/app.py:              *)
(* Validator, DatabaseManager (duplicate scan, create-if-absent save),     *)
(* EmailService and the session state machine of main().                   *)
(*                                                                         *)
(* A string is a sequence of one-character strings.  The document store    *)
(* is a set of documents [id, data]; the mail transport and the store are  *)
(* shared by all sessions and may fail on any call.                        *)
(***************************************************************************)
EXTENDS Integers, Sequences, FiniteSets, TLC

\* ------------------------------------------------------------------------
\* Bounds of the model
\* ------------------------------------------------------------------------
MaxTime == 6

\* ------------------------------------------------------------------------
\* Program constants
\* ------------------------------------------------------------------------
RateLimitWindow == 3
MaxEmailLen == 254
MinNameLen == 2
MaxNameLen == 100
MinProjectLen == 3
MaxProjectLen == 200
MaxUrlLen == 2048
EnrollmentDigits == 12
ContactDigits == 10
MinTldLen == 2

\* ------------------------------------------------------------------------
\* Characters and strings
\* ------------------------------------------------------------------------
LowerLetters ==
  <<"a","b","c","d","e","f","g","h","i","j","k","l","m",
    "n","o","p","q","r","s","t","u","v","w","x","y","z">>

UpperLetters ==
  <<"A","B","C","D","E","F","G","H","I","J","K","L","M",
    "N","O","P","Q","R","S","T","U","V","W","X","Y","Z">>

Letters == {LowerLetters[i] : i \in 1..26} \cup {UpperLetters[i] : i \in 1..26}

Digits == {"0","1","2","3","4","5","6","7","8","9"}

\* a decimal digit outside ASCII: ARABIC-INDIC DIGIT THREE, one character
ArabicIndicThree == "U+0663"

\* the characters \d matches in a str pattern: the decimal digits of Unicode
DecimalDigits == Digits \cup {ArabicIndicThree}

Whitespace == {" ", "\t", "\n"}

IsUpper(c) == \E i \in 1..26 : UpperLetters[i] = c

LowerChar(c) ==
  IF IsUpper(c) THEN LowerLetters[CHOOSE i \in 1..26 : UpperLetters[i] = c]
  ELSE c

\* str.lower()
Lower(s) == [i \in 1..Len(s) |-> LowerChar(s[i])]

\* str.strip()
RECURSIVE LStrip(_)
LStrip(s) ==
  IF s # <<>> /\ Head(s) \in Whitespace THEN LStrip(Tail(s)) ELSE s

RECURSIVE RStrip(_)
RStrip(s) ==
  IF s # <<>> /\ s[Len(s)] \in Whitespace
  THEN RStrip(SubSeq(s, 1, Len(s) - 1))
  ELSE s

Strip(s) == RStrip(LStrip(s))

AllIn(s, chars) == \A i \in 1..Len(s) : s[i] \in chars

StartsWith(s, p) == Len(s) >= Len(p) /\ SubSeq(s, 1, Len(p)) = p

\* ------------------------------------------------------------------------
\* Validator
\* ------------------------------------------------------------------------
Ok == [ok |-> TRUE, msg |-> ""]

Fail(m) == [ok |-> FALSE, msg |-> m]

EmailLocalChars == Letters \cup Digits \cup {".", "_", "%", "+", "-"}

EmailDomainChars == Letters \cup Digits \cup {".", "-"}

\* re.match(r'^[a-zA-Z0-9._%+-]+@[a-zA-Z0-9.-]+\.[a-zA-Z]{2,}$', s)
MatchesEmail(s) ==
  \E a \in 1..Len(s) : \E d \in 1..Len(s) :
    /\ s[a] = "@"
    /\ a > 1
    /\ AllIn(SubSeq(s, 1, a - 1), EmailLocalChars)
    /\ s[d] = "."
    /\ d > a + 1
    /\ AllIn(SubSeq(s, a + 1, d - 1), EmailDomainChars)
    /\ Len(s) - d >= MinTldLen
    /\ AllIn(SubSeq(s, d + 1, Len(s)), Letters)

validate_email(raw) ==
  LET email == Strip(raw) IN
    IF email = <<>> THEN Fail("Email ID is required")
    ELSE IF ~MatchesEmail(email)
      THEN Fail("Invalid email format (e.g., user@example.com)")
    ELSE IF Len(email) > MaxEmailLen THEN Fail("Email address is too long")
    ELSE Ok

\* re.match(r'^\d{12}$', s)
MatchesEnrollment(s) == Len(s) = EnrollmentDigits /\ AllIn(s, DecimalDigits)

validate_enrollment(raw) ==
  LET enrollment == Strip(raw) IN
    IF enrollment = <<>> THEN Fail("Enrollment Number is required")
    ELSE IF ~MatchesEnrollment(enrollment)
      THEN Fail("Enrollment Number must be exactly 12 digits")
    ELSE Ok

\* re.match(r'^[a-zA-Z\s]+$', s)
MatchesName(s) == Len(s) >= 1 /\ AllIn(s, Letters \cup Whitespace)

validate_name(raw) ==
  LET name == Strip(raw) IN
    IF name = <<>> THEN Fail("Full Name is required")
    ELSE IF ~MatchesName(name)
      THEN Fail("Full Name can only contain letters and spaces")
    ELSE IF Len(name) < MinNameLen
      THEN Fail("Full Name must be at least 2 characters")
    ELSE IF Len(name) > MaxNameLen
      THEN Fail("Full Name is too long (max 100 characters)")
    ELSE Ok

\* re.match(r'^\d{10}$', s)
MatchesContact(s) == Len(s) = ContactDigits /\ AllIn(s, DecimalDigits)

validate_contact(raw) ==
  LET contact == Strip(raw) IN
    IF contact = <<>> THEN Fail("Contact Number is required")
    ELSE IF ~MatchesContact(contact)
      THEN Fail("Contact Number must be exactly 10 digits")
    ELSE IF Cardinality({contact[i] : i \in 1..Len(contact)}) = 1
      THEN Fail("Contact Number appears to be invalid")
    ELSE Ok

validate_project_name(raw) ==
  LET project_name == Strip(raw) IN
    IF project_name = <<>> THEN Fail("Project Name is required")
    ELSE IF Len(project_name) < MinProjectLen
      THEN Fail("Project Name must be at least 3 characters")
    ELSE IF Len(project_name) > MaxProjectLen
      THEN Fail("Project Name is too long (max 200 characters)")
    ELSE Ok

UrlHostStartExcluded == Whitespace \cup {"/", "$", ".", "?", "#"}

\* re.match(r'^https?://[^\s/$.?#].[^\s]*$', s, re.IGNORECASE)
MatchesUrlAfterScheme(s, k) ==
  /\ Len(s) >= k + 1
  /\ s[k] \notin UrlHostStartExcluded
  /\ s[k + 1] # "\n"
  /\ \A i \in (k + 2)..Len(s) : s[i] \notin Whitespace

MatchesUrl(s) ==
  LET l == Lower(s) IN
    \/ /\ StartsWith(l, <<"h","t","t","p",":","/","/">>)
       /\ MatchesUrlAfterScheme(s, 8)
    \/ /\ StartsWith(l, <<"h","t","t","p","s",":","/","/">>)
       /\ MatchesUrlAfterScheme(s, 9)

validate_url(raw) ==
  LET url == Strip(raw) IN
    IF url = <<>> THEN Fail("Source URL is required")
    ELSE IF ~MatchesUrl(url) THEN Fail("URL must start with http:// or https://")
    ELSE IF Len(url) > MaxUrlLen THEN Fail("URL is too long")
    ELSE Ok

\* a validate_all that stops at the first failing field
validate_all_first_error(data) ==
  LET validations ==
        << <<"Email", validate_email(data.email)>>,
           <<"Enrollment", validate_enrollment(data.enrollment_number)>>,
           <<"Name", validate_name(data.full_name)>>,
           <<"Contact", validate_contact(data.contact_number)>>,
           <<"Project Name", validate_project_name(data.project_name)>>,
           <<"URL", validate_url(data.source_url)>> >>
      failing == SelectSeq(validations,
                           LAMBDA v : ~v[2].ok /\ v[2].msg # "")
      errors == IF failing = <<>> THEN <<>>
                ELSE << <<failing[1][1], failing[1][2].msg>> >>
  IN [ok |-> Len(errors) = 0, errors |-> errors]

\* Validator.validate_all: every validator runs, failures are collected
validate_all(data) ==
  LET validations ==
        << <<"Email", validate_email(data.email)>>,
           <<"Enrollment", validate_enrollment(data.enrollment_number)>>,
           <<"Name", validate_name(data.full_name)>>,
           <<"Contact", validate_contact(data.contact_number)>>,
           <<"Project Name", validate_project_name(data.project_name)>>,
           <<"URL", validate_url(data.source_url)>> >>
      failing == SelectSeq(validations,
                           LAMBDA v : ~v[2].ok /\ v[2].msg # "")
      errors == [i \in 1..Len(failing) |-> <<failing[i][1], failing[i][2].msg>>]
  IN [ok |-> Len(errors) = 0, errors |-> errors]

\* ------------------------------------------------------------------------
\* DuplicateCheckResult
\* ------------------------------------------------------------------------
\* DuplicateCheckResult.__init__
NewDuplicateCheckResult ==
  [is_duplicate |-> FALSE, duplicate_fields |-> <<>>, messages |-> <<>>,
   existing_data |-> {}]

\* stands for a missing existing_value argument (None)
NoValue == <<>>

\* DuplicateCheckResult.add_duplicate; a message is <<field name, shown value>>
add_duplicate(result, field_name, field_value, existing_value) ==
  LET display_value ==
        IF existing_value # NoValue THEN existing_value ELSE field_value
  IN [is_duplicate |-> TRUE,
      duplicate_fields |-> Append(result.duplicate_fields, field_name),
      messages |-> Append(result.messages, <<field_name, display_value>>),
      existing_data |->
        IF existing_value # NoValue
        THEN {e \in result.existing_data : e[1] # field_name}
               \cup {<<field_name, existing_value>>}
        ELSE result.existing_data]

\* ------------------------------------------------------------------------
\* DatabaseManager.check_for_duplicates
\* ------------------------------------------------------------------------
\* the candidate's fields as normalised before the scan
NormalizedCandidate(data) ==
  [full_name |-> Lower(Strip(data.full_name)),
   source_url |-> Lower(Strip(data.source_url)),
   enrollment |-> Strip(data.enrollment_number),
   email |-> Lower(Strip(data.email)),
   contact |-> Strip(data.contact_number)]

\* an empty check that leaves out the source URL
HasEmptyFieldButUrl(c) ==
  \/ c.enrollment = <<>>
  \/ c.email = <<>>
  \/ c.contact = <<>>
  \/ c.full_name = <<>>

\* "Skip if fields are empty"
HasEmptyField(c) ==
  \/ c.enrollment = <<>>
  \/ c.email = <<>>
  \/ c.contact = <<>>
  \/ c.full_name = <<>>
  \/ c.source_url = <<>>

\* a loop body that compares the enrollment number, the email and the
\* contact number only
CompareDocKeysOnly(result, c, doc_data) ==
  LET r3 == IF Strip(doc_data.enrollment_number) = c.enrollment
            THEN add_duplicate(result, "Enrollment Number", c.enrollment,
                               NoValue)
            ELSE result
      r4 == IF Lower(Strip(doc_data.email)) = c.email
            THEN add_duplicate(r3, "Email ID", c.email, doc_data.email)
            ELSE r3
      r5 == IF Strip(doc_data.contact_number) = c.contact
            THEN add_duplicate(r4, "Contact Number", c.contact, NoValue)
            ELSE r4
  IN r5

\* the body of the scan loop for one stored document
CompareDoc(result, c, doc_data) ==
  LET r1 == IF Lower(Strip(doc_data.full_name)) = c.full_name
            THEN add_duplicate(result, "Full Name", c.full_name,
                               doc_data.full_name)
            ELSE result
      r2 == IF Lower(Strip(doc_data.source_url)) = c.source_url
            THEN add_duplicate(r1, "Source URL", c.source_url,
                               doc_data.source_url)
            ELSE r1
      r3 == IF Strip(doc_data.enrollment_number) = c.enrollment
            THEN add_duplicate(r2, "Enrollment Number", c.enrollment, NoValue)
            ELSE r2
      r4 == IF Lower(Strip(doc_data.email)) = c.email
            THEN add_duplicate(r3, "Email ID", c.email, doc_data.email)
            ELSE r3
      r5 == IF Strip(doc_data.contact_number) = c.contact
            THEN add_duplicate(r4, "Contact Number", c.contact, NoValue)
            ELSE r4
  IN r5

\* an exception handler that fails closed
ScanFailedClosed(result) ==
  [result |-> [result EXCEPT !.is_duplicate = TRUE], raised |-> TRUE]

\* the exception handler of the scan: fail open
ScanFailed(result) ==
  [result |-> [result EXCEPT !.is_duplicate = FALSE], raised |-> TRUE]

\* A field of a stored document that holds no string (null, or a number
\* entered by hand): doc_data.get(...) returns it and .strip() raises.
NullValue == <<"null">>

\* the fields of a stored document in the order the loop reads them
ReadOrder ==
  <<"full_name", "source_url", "enrollment_number", "email", "contact_number">>

\* the loop raises while it reads the document
RaisesOn(doc_data) ==
  \E k \in 1..Len(ReadOrder) : doc_data[ReadOrder[k]] = NullValue

\* the document as far as the loop gets: nothing from the first field
\* without a string on is compared
ReadPart(doc_data) ==
  LET bad == CHOOSE k \in 1..Len(ReadOrder) :
               /\ doc_data[ReadOrder[k]] = NullValue
               /\ \A j \in 1..(k - 1) : doc_data[ReadOrder[j]] # NullValue
  IN [field \in DOMAIN doc_data |->
        IF \E k \in bad..Len(ReadOrder) : ReadOrder[k] = field
        THEN NullValue
        ELSE doc_data[field]]

RECURSIVE ScanDocsAll(_, _, _, _, _)
RECURSIVE ScanDocs(_, _, _, _, _)

\* a loop that goes on after a record with duplicates
ScanDocsAll(result, c, docs, i, failAt) ==
  IF failAt = i THEN ScanFailed(result)
  ELSE IF i > Len(docs) THEN [result |-> result, raised |-> FALSE]
  ELSE IF RaisesOn(docs[i].data)
    THEN ScanFailed(CompareDoc(result, c, ReadPart(docs[i].data)))
  ELSE ScanDocsAll(CompareDoc(result, c, docs[i].data), c, docs, i + 1, failAt)

\* The loop over the stream.  docs is the stream in iteration order;
\* failAt = k > 0 means the store raises when the k-th document is
\* requested (k = Len(docs) + 1: when the end of the stream is requested),
\* failAt = 0 means the store does not fail.  A document with a field that
\* holds no string makes the loop raise in the middle of its comparisons.
ScanDocs(result, c, docs, i, failAt) ==
  IF failAt = i THEN ScanFailed(result)
  ELSE IF i > Len(docs) THEN [result |-> result, raised |-> FALSE]
  ELSE IF RaisesOn(docs[i].data)
    THEN ScanFailed(CompareDoc(result, c, ReadPart(docs[i].data)))
  ELSE LET r == CompareDoc(result, c, docs[i].data) IN
         IF r.is_duplicate THEN [result |-> r, raised |-> FALSE]
         ELSE ScanDocs(r, c, docs, i + 1, failAt)

\* check_for_duplicates together with whether its except branch ran
ScanOutcome(data, docs, failAt) ==
  LET c == NormalizedCandidate(data) IN
    IF HasEmptyField(c)
    THEN [result |-> NewDuplicateCheckResult, raised |-> FALSE]
    ELSE ScanDocs(NewDuplicateCheckResult, c, docs, 1, failAt)

check_for_duplicates(data, docs, failAt) == ScanOutcome(data, docs, failAt).result

\* ------------------------------------------------------------------------
\* The document store and DatabaseManager.save_submission
\* ------------------------------------------------------------------------
AlreadySubmittedMsg == "This Enrollment Number has already been submitted."

DatabaseErrorMsg == "Database error occurred. Please try again later."

\* the value of firestore.SERVER_TIMESTAMP before the store replaces it
SERVER_TIMESTAMP == "SERVER_TIMESTAMP"

\* the timestamp the store writes in its place
ServerTime == "server time"

NoException == [kind |-> "none", text |-> {}]

\* what the store raises when create() finds the document
AlreadyExists == [kind |-> "AlreadyExists", text |-> {"409", "already exists"}]

\* backend failures of a store call; text is the set of phrases of str(e),
\* lower-cased
ServiceUnavailable == [kind |-> "ServiceUnavailable", text |-> {"503"}]

Aborted == [kind |-> "Aborted", text |-> {"409"}]

BackendFailures == {ServiceUnavailable, Aborted}

DocExists(docs, id) == \E d \in docs : d.id = id

\* a store write that replaces the document under the key, as set() does
CreateOverwrite(docs, id, data, fault) ==
  IF fault # NoException THEN [docs |-> docs, exc |-> fault]
  ELSE [docs |-> {d \in docs : d.id # id} \cup
                   {[id |-> id, data |-> [data EXCEPT !.submitted_at = ServerTime]]},
        exc |-> NoException]

\* doc_ref.create(data): create-if-absent under the key id.  fault is the
\* backend failure of this call, or NoException.
Create(docs, id, data, fault) ==
  IF fault # NoException THEN [docs |-> docs, exc |-> fault]
  ELSE IF DocExists(docs, id) THEN [docs |-> docs, exc |-> AlreadyExists]
  ELSE [docs |-> docs \cup
                   {[id |-> id, data |-> [data EXCEPT !.submitted_at = ServerTime]]},
        exc |-> NoException]

\* a save that takes an existing document for a success
save_submission_result_idempotent(exc) ==
  IF exc = NoException \/ exc = AlreadyExists
  THEN [success |-> TRUE, error_msg |-> ""]
  ELSE [success |-> FALSE, error_msg |-> DatabaseErrorMsg]

\* the result pair of save_submission, from what create() raised
save_submission_result(exc) ==
  IF exc = NoException THEN [success |-> TRUE, error_msg |-> ""]
  ELSE IF "409" \in exc.text \/ "already exists" \in exc.text
    THEN [success |-> FALSE, error_msg |-> AlreadySubmittedMsg]
  ELSE [success |-> FALSE, error_msg |-> DatabaseErrorMsg]

\* ------------------------------------------------------------------------
\* EmailService.send_confirmation_email
\* ------------------------------------------------------------------------
TransportOutcomes == {"delivered", "auth_error", "error"}

send_confirmation_email(enabled, transport) ==
  IF ~enabled THEN FALSE
  ELSE IF transport = "delivered" THEN TRUE
  ELSE FALSE

\* ------------------------------------------------------------------------
\* Inputs: the forms a user may submit
\* ------------------------------------------------------------------------
Enrollment1 == <<"1","2","3","4","5","6","7","8","9","0","1","2">>

Enrollment2 == <<"2","2","3","4","5","6","7","8","9","0","1","2">>

\* valid; email with surrounding space and upper case
FormA ==
  [email |-> <<" ","A","@","b",".","c","d">>,
   enrollment_number |-> Enrollment1,
   full_name |-> <<"J","o">>,
   contact_number |-> <<"9","8","7","6","5","4","3","2","1","0">>,
   project_name |-> <<"D","e","m","o">>,
   source_url |-> <<"h","t","t","p","s",":","/","/","x",".","y">>]

\* valid; same enrollment number as FormA, nothing else in common
FormB ==
  [email |-> <<"c","@","d",".","e","f">>,
   enrollment_number |-> Enrollment1,
   full_name |-> <<"A","l">>,
   contact_number |-> <<"9","8","7","6","5","4","3","2","1","1">>,
   project_name |-> <<"D","e","m","o">>,
   source_url |-> <<"h","t","t","p",":","/","/","z",".","w">>]

\* valid; same email as FormA up to case and space, nothing else in common
FormC ==
  [email |-> <<"a","@","b",".","c","d">>,
   enrollment_number |-> Enrollment2,
   full_name |-> <<"B","o">>,
   contact_number |-> <<"9","8","7","6","5","4","3","2","1","2">>,
   project_name |-> <<"D","e","m","o">>,
   source_url |-> <<"h","t","t","p","s",":","/","/","q",".","r">>]

\* invalid: a 5-digit enrollment number
FormD ==
  [FormC EXCEPT !.enrollment_number = <<"1","2","3","4","5">>]

Forms == {FormA, FormB, FormC, FormD}

\* valid; nothing in common with FormA, FormB or FormC
FormH ==
  [email |-> <<"h","@","i",".","j","k">>,
   enrollment_number |-> <<"3","2","3","4","5","6","7","8","9","0","1","2">>,
   full_name |-> <<"C","y">>,
   contact_number |-> <<"9","8","7","6","5","4","3","2","1","3">>,
   project_name |-> <<"D","e","m","o">>,
   source_url |-> <<"h","t","t","p","s",":","/","/","u",".","v">>]

\* valid; nothing in common with any other form
FormN ==
  [email |-> <<"n","@","o",".","p","q">>,
   enrollment_number |-> <<"4","2","3","4","5","6","7","8","9","0","1","2">>,
   full_name |-> <<"D","i">>,
   contact_number |-> <<"9","8","7","6","5","4","3","2","1","4">>,
   project_name |-> <<"D","e","m","o">>,
   source_url |-> <<"h","t","t","p","s",":","/","/","s",".","t">>]

\* as FormN, with the email of FormH up to case and space and the contact
\* number of FormA
FormE ==
  [FormN EXCEPT !.email = <<" ","H","@","I",".","J","K">>,
                !.contact_number = FormA.contact_number]

\* as FormN, with the full name of FormA up to case and space
FormF == [FormN EXCEPT !.full_name = <<"J","O"," ">>]

\* as FormN, with the source URL of FormA up to case and space
FormG ==
  [FormN EXCEPT
     !.source_url = <<" ","H","T","T","P","S",":","/","/","X",".","Y">>]

FieldNames ==
  {"email", "enrollment_number", "full_name", "contact_number",
   "project_name", "source_url"}

\* the form f with only white space in one field
Blank(f, field) == [f EXCEPT ![field] = <<" ">>]

\* the records check_for_duplicates is called with
ScanCandidates ==
  {FormA, FormB, FormC, FormN, FormE, FormF, FormG}
    \cup {Blank(FormA, field) : field \in FieldNames}

Sessions == {"s1", "s2"}

\* the forms each session submits
FormsOf(s) == IF s = "s1" THEN {FormA, FormD} ELSE {FormB, FormC}

\* ------------------------------------------------------------------------
\* State
\* ------------------------------------------------------------------------
VARIABLES
  store,                 \* the collection: a set of documents [id, data]
  now,                   \* time.time()
  mail_log,              \* the calls of send_confirmation_email, in order
  pc,                    \* where the script run of each session stands
  button_disabled,       \* the disabled flag the submit button was drawn with
  is_submitting,         \* st.session_state.is_submitting
  last_submission_time,  \* st.session_state.last_submission_time
  submission_complete,   \* st.session_state.submission_complete
  submitted_data,        \* st.session_state.submitted_data
  ss_form_data,          \* st.session_state.form_data
  ss_duplicate_check_result, \* st.session_state.duplicate_check_result
  form_data,             \* main: form_data of the run
  duplicate_result,      \* main: duplicate_result of the run
  submission_data,       \* main: submission_data of the run
  email_sent,            \* main: email_sent of the run
  error_msg,             \* main: error_msg of the run
  scan_raised,           \* the scan of the run went through its except branch
  saved_key,             \* the key the run passed to save_submission
  save_exc,              \* kind of the exception save_submission caught
  outcome,               \* how the latest submit attempt ended
  ops,                   \* the calls the latest submit attempt has made
  call                   \* the latest direct call of a function: its name,
                         \* arguments and return value

session_vars ==
  <<is_submitting, last_submission_time, submission_complete, submitted_data,
    ss_form_data, ss_duplicate_check_result>>

run_vars ==
  <<form_data, duplicate_result, submission_data, email_sent, error_msg,
    scan_raised, saved_key, save_exc>>

\* the state of the application
app_vars ==
  <<store, now, mail_log, pc, button_disabled, session_vars,
    run_vars, outcome, ops>>

vars == <<app_vars, call>>

\* Python's None
None == [none |-> TRUE]

EmptyDict == [empty |-> TRUE]

\* the run has passed no key to save_submission
NoKey == <<>>

\* no function has been called directly
NoCall == [fn |-> "none"]

\* init_session_state in every session, and no mail sent yet.  The clock is
\* wall-clock time, far beyond the initial last_submission_time 0.
InitSessions ==
  /\ now = RateLimitWindow
  /\ mail_log = <<>>
  /\ pc = [s \in Sessions |-> "idle"]
  /\ button_disabled = [s \in Sessions |-> FALSE]
  /\ is_submitting = [s \in Sessions |-> FALSE]
  /\ last_submission_time = [s \in Sessions |-> 0]
  /\ submission_complete = [s \in Sessions |-> FALSE]
  /\ submitted_data = [s \in Sessions |-> None]
  /\ ss_form_data = [s \in Sessions |-> EmptyDict]
  /\ ss_duplicate_check_result = [s \in Sessions |-> None]
  /\ form_data = [s \in Sessions |-> None]
  /\ duplicate_result = [s \in Sessions |-> None]
  /\ submission_data = [s \in Sessions |-> None]
  /\ email_sent = [s \in Sessions |-> FALSE]
  /\ error_msg = [s \in Sessions |-> ""]
  /\ scan_raised = [s \in Sessions |-> FALSE]
  /\ saved_key = [s \in Sessions |-> NoKey]
  /\ save_exc = [s \in Sessions |-> "none"]
  /\ outcome = [s \in Sessions |-> "none"]
  /\ ops = [s \in Sessions |-> <<>>]
  /\ call = NoCall

\* the application starts on an empty collection
Init ==
  /\ store = {}
  /\ InitSessions

\* ------------------------------------------------------------------------
\* main(): the page and the submit handler
\* ------------------------------------------------------------------------
\* "Show success page if submission complete"
SuccessPageShown(s) == submission_complete[s] /\ submitted_data[s] # None

EmailSentNotice == "A confirmation email has been sent to your email address."

EmailNotSentWarning == "Submission saved! Email notification could not be sent."

\* show_success_page: the notices on the page main draws for the session
\* once submission_complete is set.  The warning of the run that saved the
\* submission is not among them: the run ends with st.rerun(), which draws
\* the page anew.
SuccessPageNotices(s) ==
  IF SuccessPageShown(s)
  THEN {"Form Submitted Successfully!", EmailSentNotice}
  ELSE {}

\* a rate limiter that still rejects at the end of the window
RateLimitedInclusive(s) == now - last_submission_time[s] <= RateLimitWindow

\* a rate limiter with a window one unit too short
RateLimitedShort(s) == now - last_submission_time[s] < RateLimitWindow - 1

\* the rate limiter of the submit handler
RateLimited(s) == now - last_submission_time[s] < RateLimitWindow

\* a handler that ignores the validation result
ValidationFailedIgnored(result) == FALSE

\* "if not all_valid"
ValidationFailed(result) == ~result.ok

\* a new run starts with fresh locals
FreshRun(s) ==
  /\ duplicate_result' = [duplicate_result EXCEPT ![s] = None]
  /\ submission_data' = [submission_data EXCEPT ![s] = None]
  /\ email_sent' = [email_sent EXCEPT ![s] = FALSE]
  /\ error_msg' = [error_msg EXCEPT ![s] = ""]
  /\ scan_raised' = [scan_raised EXCEPT ![s] = FALSE]
  /\ saved_key' = [saved_key EXCEPT ![s] = NoKey]
  /\ save_exc' = [save_exc EXCEPT ![s] = "none"]

\* the dictionaries of a run are gone when the run ends; what the run
\* displayed or logged is kept until the next run
EndRun(s) ==
  /\ form_data' = [form_data EXCEPT ![s] = None]
  /\ submission_data' = [submission_data EXCEPT ![s] = None]

\* The run started by a click on the submit button with the form f: the
\* button is drawn again, then the handler runs up to the duplicate scan.
SubmitHandler(s, f) ==
  /\ button_disabled' = [button_disabled EXCEPT ![s] = is_submitting[s]]
  /\ FreshRun(s)
  /\ UNCHANGED <<store, now, mail_log, submission_complete,
                 submitted_data, ss_form_data, ss_duplicate_check_result,
                 call>>
  /\ IF RateLimited(s)
     THEN /\ outcome' = [outcome EXCEPT ![s] = "wait"]
          /\ ops' = [ops EXCEPT ![s] = <<>>]
          /\ pc' = [pc EXCEPT ![s] = "idle"]
          /\ form_data' = [form_data EXCEPT ![s] = None]
          /\ UNCHANGED <<is_submitting, last_submission_time>>
     ELSE /\ last_submission_time' = [last_submission_time EXCEPT ![s] = now]
          /\ ops' = [ops EXCEPT ![s] = <<"validate_all">>]
          /\ IF ValidationFailed(validate_all(f))
             THEN /\ is_submitting' = [is_submitting EXCEPT ![s] = FALSE]
                  /\ outcome' = [outcome EXCEPT ![s] = "invalid"]
                  /\ pc' = [pc EXCEPT ![s] = "idle"]
                  /\ form_data' = [form_data EXCEPT ![s] = None]
             ELSE /\ form_data' = [form_data EXCEPT ![s] = f]
                  /\ is_submitting' = [is_submitting EXCEPT ![s] = TRUE]
                  /\ outcome' = [outcome EXCEPT ![s] = "running"]
                  /\ pc' = [pc EXCEPT ![s] = "checking"]

\* a click on the submit button of the form while no run is in progress
Submit(s, f) ==
  /\ pc[s] = "idle"
  /\ ~SuccessPageShown(s)
  /\ ~button_disabled[s]
  /\ SubmitHandler(s, f)

\* the orders in which the stream of the collection may deliver the documents
StreamOrders(docs) ==
  {q \in [1..Cardinality(docs) -> docs] :
     \A i, j \in 1..Cardinality(docs) : q[i] = q[j] => i = j}

\* a preparation that keeps the case of the email
CleanSubmissionKeepCase(f) ==
  [email |-> Strip(f.email),
   enrollment_number |-> Strip(f.enrollment_number),
   full_name |-> Strip(f.full_name),
   contact_number |-> Strip(f.contact_number),
   project_name |-> Strip(f.project_name),
   source_url |-> Strip(f.source_url),
   submitted_at |-> SERVER_TIMESTAMP]

\* "Clean and prepare submission data"
CleanSubmission(f) ==
  [email |-> Lower(Strip(f.email)),
   enrollment_number |-> Strip(f.enrollment_number),
   full_name |-> Strip(f.full_name),
   contact_number |-> Strip(f.contact_number),
   project_name |-> Strip(f.project_name),
   source_url |-> Strip(f.source_url),
   submitted_at |-> SERVER_TIMESTAMP]

\* a handler that ignores the duplicate check result
StopsOnDuplicateIgnored(result) == FALSE

\* "if duplicate_result.is_duplicate": stop, else go on to the save
StopsOnDuplicate(result) == result.is_duplicate

\* Step 2 of the handler: the duplicate scan and the branch on its result
CheckDuplicates(s) ==
  /\ pc[s] = "checking"
  /\ \E docs \in StreamOrders(store) : \E failAt \in 0..(Cardinality(store) + 1) :
       LET o == ScanOutcome(form_data[s], docs, failAt) IN
         /\ duplicate_result' = [duplicate_result EXCEPT ![s] = o.result]
         /\ scan_raised' = [scan_raised EXCEPT ![s] = o.raised]
         /\ ops' = [ops EXCEPT ![s] = Append(@, "check_for_duplicates")]
         /\ IF StopsOnDuplicate(o.result)
            THEN /\ is_submitting' = [is_submitting EXCEPT ![s] = FALSE]
                 /\ outcome' = [outcome EXCEPT ![s] = "duplicate"]
                 /\ pc' = [pc EXCEPT ![s] = "idle"]
                 /\ EndRun(s)
            ELSE /\ submission_data' =
                      [submission_data EXCEPT ![s] = CleanSubmission(form_data[s])]
                 /\ pc' = [pc EXCEPT ![s] = "saving"]
                 /\ UNCHANGED <<is_submitting, outcome, form_data>>
  /\ UNCHANGED <<store, now, mail_log, button_disabled,
                 last_submission_time, submission_complete, submitted_data,
                 ss_form_data, ss_duplicate_check_result, email_sent,
                 error_msg, saved_key, save_exc, call>>

\* a handler that sends the confirmation whatever the save returned
SaveSucceededIgnored(r) == TRUE

\* "if success": go on to the confirmation email
SaveSucceeded(r) == r.success

\* save_submission and the branch on its result
Save(s) ==
  /\ pc[s] = "saving"
  /\ \E fault \in BackendFailures \cup {NoException} :
       LET c == Create(store, submission_data[s].enrollment_number,
                       submission_data[s], fault)
           r == save_submission_result(c.exc)
       IN /\ store' = c.docs
          /\ saved_key' = [saved_key EXCEPT ![s] =
                             submission_data[s].enrollment_number]
          /\ save_exc' = [save_exc EXCEPT ![s] = c.exc.kind]
          /\ error_msg' = [error_msg EXCEPT ![s] = r.error_msg]
          /\ ops' = [ops EXCEPT ![s] = Append(@, "save_submission")]
          /\ IF SaveSucceeded(r)
             THEN /\ pc' = [pc EXCEPT ![s] = "notifying"]
                  /\ UNCHANGED <<is_submitting, outcome, form_data,
                                 submission_data>>
             ELSE /\ is_submitting' = [is_submitting EXCEPT ![s] = FALSE]
                  /\ outcome' = [outcome EXCEPT ![s] =
                       IF r.error_msg = AlreadySubmittedMsg
                       THEN "conflict" ELSE "error"]
                  /\ pc' = [pc EXCEPT ![s] = "idle"]
                  /\ EndRun(s)
  /\ UNCHANGED <<now, mail_log, button_disabled,
                 last_submission_time, submission_complete, submitted_data,
                 ss_form_data, ss_duplicate_check_result, duplicate_result,
                 email_sent, scan_raised, call>>

\* a handler that takes a failed confirmation email for a failed submission:
\* it removes the document and returns to the form
NotifyOrRollback(s) ==
  /\ pc[s] = "notifying"
  /\ \E enabled \in BOOLEAN : \E transport \in TransportOutcomes :
       LET sent == send_confirmation_email(enabled, transport) IN
         /\ email_sent' = [email_sent EXCEPT ![s] = sent]
         /\ mail_log' = Append(mail_log,
              [session |-> s,
               recipient_email |-> submission_data[s].email,
               enrollment_number |-> submission_data[s].enrollment_number,
               sent |-> sent])
         /\ IF sent
            THEN /\ submitted_data' =
                      [submitted_data EXCEPT ![s] = submission_data[s]]
                 /\ submission_complete' =
                      [submission_complete EXCEPT ![s] = TRUE]
                 /\ outcome' = [outcome EXCEPT ![s] = "success"]
                 /\ UNCHANGED <<store, is_submitting>>
            ELSE /\ store' = {d \in store :
                                d.id # submission_data[s].enrollment_number}
                 /\ is_submitting' = [is_submitting EXCEPT ![s] = FALSE]
                 /\ outcome' = [outcome EXCEPT ![s] = "error"]
                 /\ UNCHANGED <<submitted_data, submission_complete>>
  /\ ops' = [ops EXCEPT ![s] = Append(@, "send_confirmation_email")]
  /\ pc' = [pc EXCEPT ![s] = "idle"]
  /\ EndRun(s)
  /\ UNCHANGED <<now, button_disabled, last_submission_time, ss_form_data,
                 ss_duplicate_check_result, duplicate_result, error_msg,
                 scan_raised, saved_key, save_exc, call>>

\* The confirmation email, then "Show success page".  The EmailService of
\* the run is enabled when the mail configuration was found.
Notify(s) ==
  /\ pc[s] = "notifying"
  /\ \E enabled \in BOOLEAN : \E transport \in TransportOutcomes :
       LET sent == send_confirmation_email(enabled, transport) IN
         /\ email_sent' = [email_sent EXCEPT ![s] = sent]
         /\ mail_log' = Append(mail_log,
              [session |-> s,
               recipient_email |-> submission_data[s].email,
               enrollment_number |-> submission_data[s].enrollment_number,
               sent |-> sent])
  /\ ops' = [ops EXCEPT ![s] = Append(@, "send_confirmation_email")]
  /\ submitted_data' = [submitted_data EXCEPT ![s] = submission_data[s]]
  /\ submission_complete' = [submission_complete EXCEPT ![s] = TRUE]
  /\ outcome' = [outcome EXCEPT ![s] = "success"]
  /\ pc' = [pc EXCEPT ![s] = "idle"]
  /\ EndRun(s)
  /\ UNCHANGED <<store, now, button_disabled, is_submitting,
                 last_submission_time, ss_form_data,
                 ss_duplicate_check_result, duplicate_result, error_msg,
                 scan_raised, saved_key, save_exc, call>>

\* a reset that also puts last_submission_time back to its default
ResetClearsLimiter(s) ==
  /\ pc[s] = "idle"
  /\ SuccessPageShown(s)
  /\ submission_complete' = [submission_complete EXCEPT ![s] = FALSE]
  /\ submitted_data' = [submitted_data EXCEPT ![s] = None]
  /\ is_submitting' = [is_submitting EXCEPT ![s] = FALSE]
  /\ last_submission_time' = [last_submission_time EXCEPT ![s] = 0]
  /\ ss_form_data' = [ss_form_data EXCEPT ![s] = EmptyDict]
  /\ ss_duplicate_check_result' = [ss_duplicate_check_result EXCEPT ![s] = None]
  /\ button_disabled' = [button_disabled EXCEPT ![s] = FALSE]
  /\ UNCHANGED <<store, now, mail_log, pc, run_vars, outcome, ops, call>>

\* a reset that leaves is_submitting as it is
ResetKeepsSubmitting(s) ==
  /\ pc[s] = "idle"
  /\ SuccessPageShown(s)
  /\ submission_complete' = [submission_complete EXCEPT ![s] = FALSE]
  /\ submitted_data' = [submitted_data EXCEPT ![s] = None]
  /\ ss_form_data' = [ss_form_data EXCEPT ![s] = EmptyDict]
  /\ ss_duplicate_check_result' = [ss_duplicate_check_result EXCEPT ![s] = None]
  /\ button_disabled' = [button_disabled EXCEPT ![s] = FALSE]
  /\ UNCHANGED <<store, now, mail_log, pc, is_submitting,
                 last_submission_time, run_vars, outcome, ops, call>>

\* a reset that also withdraws the submission shown on the success page
ResetWithdraws(s) ==
  /\ pc[s] = "idle"
  /\ SuccessPageShown(s)
  /\ store' = {d \in store : d.id # submitted_data[s].enrollment_number}
  /\ submission_complete' = [submission_complete EXCEPT ![s] = FALSE]
  /\ submitted_data' = [submitted_data EXCEPT ![s] = None]
  /\ is_submitting' = [is_submitting EXCEPT ![s] = FALSE]
  /\ ss_form_data' = [ss_form_data EXCEPT ![s] = EmptyDict]
  /\ ss_duplicate_check_result' = [ss_duplicate_check_result EXCEPT ![s] = None]
  /\ button_disabled' = [button_disabled EXCEPT ![s] = FALSE]
  /\ UNCHANGED <<now, mail_log, pc,
                 last_submission_time, run_vars, outcome, ops, call>>

\* the button of the success page: reset_session_state, then the form is
\* drawn again
Reset(s) ==
  /\ pc[s] = "idle"
  /\ SuccessPageShown(s)
  /\ submission_complete' = [submission_complete EXCEPT ![s] = FALSE]
  /\ submitted_data' = [submitted_data EXCEPT ![s] = None]
  /\ is_submitting' = [is_submitting EXCEPT ![s] = FALSE]
  /\ ss_form_data' = [ss_form_data EXCEPT ![s] = EmptyDict]
  /\ ss_duplicate_check_result' = [ss_duplicate_check_result EXCEPT ![s] = None]
  /\ button_disabled' = [button_disabled EXCEPT ![s] = FALSE]
  /\ UNCHANGED <<store, now, mail_log, pc,
                 last_submission_time, run_vars, outcome, ops, call>>

\* time passes
Tick ==
  /\ now < MaxTime
  /\ now' = now + 1
  /\ UNCHANGED <<store, mail_log, pc, button_disabled,
                 session_vars, run_vars, outcome, ops, call>>

Next ==
  \/ \E s \in Sessions : \E f \in FormsOf(s) : Submit(s, f)
  \/ \E s \in Sessions : CheckDuplicates(s)
  \/ \E s \in Sessions : Save(s)
  \/ \E s \in Sessions : Notify(s)
  \/ \E s \in Sessions : Reset(s)
  \/ Tick

\* one request at a time in each session; the sessions interleave
Spec == Init /\ [][Next]_vars

\* A click on the submit button while the run of an earlier click is still
\* in flight.  The button on the page is the one that run drew, before it
\* set is_submitting.  The run in flight has returned from the duplicate
\* scan; it is stopped at its next output, "No duplicates found", and the
\* handler runs again for the new click.
ReentrantSubmit(s, f) ==
  /\ pc[s] = "saving"
  /\ ~SuccessPageShown(s)
  /\ ~button_disabled[s]
  /\ SubmitHandler(s, f)

NextReentrant ==
  \/ Next
  \/ \E s \in Sessions : \E f \in FormsOf(s) : ReentrantSubmit(s, f)

\* as Spec, and a session may click again while its request is in flight
SpecReentrant == Init /\ [][NextReentrant]_vars

\* A script run goes on until it ends: each store call and each mail call
\* returns or raises, and the handler then takes its next step (each of
\* these steps moves pc).
RunsGoOn ==
  \A s \in Sessions :
    /\ WF_pc(CheckDuplicates(s))
    /\ WF_pc(Save(s))
    /\ WF_pc(Notify(s))

\* Spec with every run going on to its end
SpecLive == Spec /\ RunsGoOn

\* SpecReentrant with every run going on to its end, unless a new click
\* stops it
SpecReentrantLive == SpecReentrant /\ RunsGoOn

\* ------------------------------------------------------------------------
\* DatabaseManager.check_for_duplicates called on a collection
\* ------------------------------------------------------------------------
\* the document a successful save of the form f leaves in the collection
StoredDoc(f) ==
  LET data == CleanSubmission(f) IN
    CHOOSE d \in Create({}, data.enrollment_number, data, NoException).docs :
      TRUE

\* the document of FormA after its contact number was cleared by hand
EditedDoc ==
  [StoredDoc(FormA) EXCEPT !.data.contact_number = NullValue]

\* the collections the function is called on: written by the pipeline, or
\* with a document edited out of band
ScanStores ==
  (SUBSET {StoredDoc(FormA), StoredDoc(FormC), StoredDoc(FormH)})
    \cup {{EditedDoc}, {StoredDoc(FormC), EditedDoc}}

InitScan ==
  /\ store \in ScanStores
  /\ InitSessions

\* one call of check_for_duplicates on the collection: the stream delivers
\* the documents in the order docs, and fails at failAt if failAt > 0
CallCheckForDuplicates(data, docs, failAt) ==
  /\ call' = [fn |-> "check_for_duplicates",
              data |-> data, docs |-> docs, failAt |-> failAt,
              raised |-> ScanOutcome(data, docs, failAt).raised,
              result |-> check_for_duplicates(data, docs, failAt)]
  /\ UNCHANGED app_vars

NextScan ==
  \E data \in ScanCandidates : \E docs \in StreamOrders(store) :
    \E failAt \in 0..(Cardinality(store) + 1) :
      CallCheckForDuplicates(data, docs, failAt)

\* check_for_duplicates on its own, on every collection of ScanStores
SpecScan == InitScan /\ [][NextScan]_vars

\* ------------------------------------------------------------------------
\* Validator.validate_all called on a record
\* ------------------------------------------------------------------------
\* the records validate_all is called with: every field valid, or failing
\* in one of several ways
ValidateInputs ==
  [email : {FormA.email, <<>>, <<"a","b">>},
   enrollment_number : {Enrollment1, <<"1","2","3","4","5">>, <<" ">>},
   full_name : {FormA.full_name, <<"J">>, <<"J","0">>},
   contact_number : {FormA.contact_number,
                     <<"9","9","9","9","9","9","9","9","9","9">>},
   project_name : {FormA.project_name, <<"D","e">>},
   source_url : {FormA.source_url, <<"f","t","p",":","/","/","x",".","y">>}]

\* one call of validate_all
CallValidateAll(data) ==
  /\ call' = [fn |-> "validate_all", data |-> data,
              result |-> validate_all(data)]
  /\ UNCHANGED app_vars

NextValidate == \E data \in ValidateInputs : CallValidateAll(data)

\* validate_all on its own, on every record of ValidateInputs
SpecValidate == Init /\ [][NextValidate]_vars

\* ------------------------------------------------------------------------
\* The field validators called on a string
\* ------------------------------------------------------------------------
\* white space around an input, or none
Paddings == {<<>>, <<" ">>, <<"\t">>, <<"\n">>}

\* the string body with padding on both sides
Padded(bodies) ==
  {l \o body \o r : l \in Paddings, body \in bodies, r \in Paddings}

\* enrollment numbers without padding: 12 digits, too few, too many, a
\* letter, a digit outside ASCII, white space inside, nothing
EnrollmentBodies ==
  {Enrollment1,
   Enrollment2,
   SubSeq(Enrollment1, 1, 11),
   Enrollment1 \o <<"3">>,
   [Enrollment1 EXCEPT ![12] = "a"],
   [Enrollment1 EXCEPT ![3] = ArabicIndicThree],
   [Enrollment1 EXCEPT ![6] = " "],
   <<>>}

EnrollmentInputs == Padded(EnrollmentBodies)

\* one call of validate_enrollment
CallValidateEnrollment(raw) ==
  /\ call' = [fn |-> "validate_enrollment", raw |-> raw,
              result |-> validate_enrollment(raw)]
  /\ UNCHANGED app_vars

\* the start of a URL, up to the host
UrlSchemes ==
  {<<"h","t","t","p",":","/","/">>,
   <<"h","t","t","p","s",":","/","/">>,
   <<"H","t","t","p",":","/","/">>,
   <<"f","t","p",":","/","/">>,
   <<>>}

\* what follows the scheme: hosts of one and more characters, with white
\* space inside, and starting with each character the pattern excludes
UrlRests ==
  {<<"x",".","y">>, <<"x">>, <<"x","y">>, <<"x"," ","y">>, <<"x","\t">> \o <<"y">>,
   <<"x","y"," ","z">>, <<"x","/","y","?","z","#">>,
   <<".","x">>, <<"$","x">>, <<"/","x">>, <<"?","x">>, <<"#","x">>,
   <<>>}

UrlInputs ==
  {l \o scheme \o rest \o r :
     l \in {<<>>, <<" ">>}, scheme \in UrlSchemes, rest \in UrlRests,
     r \in {<<>>, <<"\n">>}}

\* one call of validate_url
CallValidateUrl(raw) ==
  /\ call' = [fn |-> "validate_url", raw |-> raw, result |-> validate_url(raw)]
  /\ UNCHANGED app_vars

\* the string of n characters c
Repeat(c, n) == [i \in 1..n |-> c]

\* contact numbers without padding: 10 digits, all digits identical, too
\* few, too many, a letter, a digit outside ASCII, white space inside,
\* nothing
ContactBodies ==
  {FormA.contact_number,
   Repeat("5", 10),
   Repeat("0", 10),
   Repeat("5", 9),
   Repeat("5", 9) \o <<"6">>,
   Repeat("5", 10) \o <<"6">>,
   [FormA.contact_number EXCEPT ![10] = "a"],
   [FormA.contact_number EXCEPT ![4] = ArabicIndicThree],
   Repeat("3", 9) \o <<ArabicIndicThree>>,
   Repeat(ArabicIndicThree, 10),
   [FormA.contact_number EXCEPT ![5] = " "],
   <<>>}

ContactInputs == Padded(ContactBodies)

\* one call of validate_contact
CallValidateContact(raw) ==
  /\ call' = [fn |-> "validate_contact", raw |-> raw,
              result |-> validate_contact(raw)]
  /\ UNCHANGED app_vars

NextFields ==
  \/ \E raw \in EnrollmentInputs : CallValidateEnrollment(raw)
  \/ \E raw \in UrlInputs : CallValidateUrl(raw)
  \/ \E raw \in ContactInputs : CallValidateContact(raw)

\* the field validators on their own
SpecFields == Init /\ [][NextFields]_vars

\* ------------------------------------------------------------------------
\* Properties
\* ------------------------------------------------------------------------
\* the step in which session s makes its save_submission call
SavesNow(s) ==
  pc[s] = "saving" /\ ops'[s] = Append(ops[s], "save_submission")

\* the step in which session s makes its check_for_duplicates call
ScansNow(s) ==
  pc[s] = "checking" /\ ops'[s] = Append(ops[s], "check_for_duplicates")

\* the step in which session s makes its send_confirmation_email call
NotifiesNow(s) ==
  pc[s] = "notifying" /\ ops'[s] = Append(ops[s], "send_confirmation_email")

DocsUnder(id) == {d \in store : d.id = id}

Sends(s) ==
  Cardinality({i \in 1..Len(ops[s]) : ops[s][i] = "send_confirmation_email"})

\* C1 as stated: a save_submission call for an enrollment number that is
\* already stored returns (False, "This Enrollment Number has already been
\* submitted.") and leaves the store as it was.
C1_LaterSaveAlreadySubmitted ==
  [][\A s \in Sessions :
       (SavesNow(s) /\ DocExists(store, submission_data[s].enrollment_number))
         => /\ pc'[s] = "idle"
            /\ error_msg'[s] = AlreadySubmittedMsg
            /\ store' = store]_vars

\* C1 amended: of the save_submission calls for one enrollment number at
\* most one returns success (a call succeeds only when no document is stored
\* under the key, and then stores exactly its own record); every later call
\* returns False and leaves the store as it was; its message is the
\* "already submitted" one when the store answers the create with its
\* already-exists conflict, and is the generic database error message or the
\* "already submitted" one when the backend call itself fails.
C1_LaterSaveFails ==
  [][\A s \in Sessions :
       LET key == submission_data[s].enrollment_number IN
         /\ (SavesNow(s) /\ DocExists(store, key))
              => /\ pc'[s] = "idle"
                 /\ outcome'[s] \in {"conflict", "error"}
                 /\ error_msg'[s] \in {AlreadySubmittedMsg, DatabaseErrorMsg}
                 /\ save_exc'[s] = "AlreadyExists"
                      => error_msg'[s] = AlreadySubmittedMsg
                 /\ save_exc'[s] # "none"
                 /\ store' = store
         /\ (SavesNow(s) /\ pc'[s] = "notifying")
              => /\ ~DocExists(store, key)
                 /\ store' = store \cup
                      {[id |-> key,
                        data |-> [submission_data[s] EXCEPT
                                    !.submitted_at = ServerTime]]}]_vars

\* C1 witness: the second session's save was rejected by the store because
\* the document of the first session's form is stored under the key.
C1_Witness ==
  /\ outcome["s2"] = "conflict"
  /\ save_exc["s2"] = "AlreadyExists"
  /\ \E d \in store :
       /\ d.id = saved_key["s2"]
       /\ d.data.email = Lower(Strip(FormA.email))

\* the sessions whose latest attempts called save_submission with one key
\* and have finished
SameKeyFinished(s, t) ==
  /\ s # t
  /\ pc[s] = "idle"
  /\ pc[t] = "idle"
  /\ saved_key[s] # NoKey
  /\ saved_key[s] = saved_key[t]

\* a session that did not reach Success is back at the form, not
\* submitting, and no confirmation email was attempted for its attempt
BackAtForm(s) ==
  outcome[s] # "success"
    => /\ ~is_submitting[s]
       /\ ~SuccessPageShown(s)
       /\ Sends(s) = 0

\* C2 as stated: when two sessions have run the pipeline with the same
\* enrollment number, at most one reached Success, exactly one document
\* exists under the key, and the other session is back at the form with
\* is_submitting = False and without a confirmation email.
C2_OneSuccessExactlyOneDocument ==
  \A s, t \in Sessions :
    SameKeyFinished(s, t)
      => /\ ~(outcome[s] = "success" /\ outcome[t] = "success")
         /\ Cardinality(DocsUnder(saved_key[s])) = 1
         /\ BackAtForm(s)
         /\ BackAtForm(t)

\* C2 amended: when two sessions have run the pipeline with the same
\* enrollment number, at most one reached Success and at most one document
\* exists under the key, exactly one as soon as the store answered one of
\* the two creates (none when both saves failed on a backend error); every
\* session that did not reach Success is back at the form with
\* is_submitting = False and without a confirmation email.
C2_OneSuccessAtMostOneDocument ==
  \A s, t \in Sessions :
    SameKeyFinished(s, t)
      => /\ ~(outcome[s] = "success" /\ outcome[t] = "success")
         /\ Cardinality(DocsUnder(saved_key[s])) <= 1
         /\ (\E u \in {s, t} : save_exc[u] \in {"none", "AlreadyExists"})
              => Cardinality(DocsUnder(saved_key[s])) = 1
         /\ BackAtForm(s)
         /\ BackAtForm(t)

\* C2 witness: both scans completed without finding a duplicate and without
\* a store error, the first session saved and reached Success, the second
\* session's save met the conflict.
C2_Witness ==
  /\ SameKeyFinished("s1", "s2")
  /\ outcome["s1"] = "success"
  /\ outcome["s2"] = "conflict"
  /\ save_exc["s2"] = "AlreadyExists"
  /\ ~scan_raised["s1"]
  /\ ~scan_raised["s2"]
  /\ ~is_submitting["s2"]

\* C3: no two stored submissions have the same email (compared
\* case-insensitively) and no two have the same contact number.
C3_UniqueEmailAndContact ==
  \A d1, d2 \in store :
    d1 # d2
      => /\ Lower(d1.data.email) # Lower(d2.data.email)
         /\ d1.data.contact_number # d2.data.contact_number

\* C4: a submit attempt made fewer than 3 time units after the last accepted
\* one is rejected with the wait signal: no validation, no scan, no store
\* write, no notification, and the session state is left unchanged.
C4_RateLimitedSubmitChangesNothing ==
  [][\A s \in Sessions :
       ((\E f \in Forms : Submit(s, f))
          /\ now - last_submission_time[s] < RateLimitWindow)
         => /\ outcome'[s] = "wait"
            /\ ops'[s] = <<>>
            /\ pc'[s] = "idle"
            /\ store' = store
            /\ mail_log' = mail_log
            /\ is_submitting'[s] = is_submitting[s]
            /\ last_submission_time'[s] = last_submission_time[s]
            /\ submission_complete'[s] = submission_complete[s]
            /\ submitted_data'[s] = submitted_data[s]]_vars

\* C4 witness: an attempt was rejected inside the window of an accepted one.
C4_Witness ==
  \E s \in Sessions :
    /\ outcome[s] = "wait"
    /\ last_submission_time[s] >= RateLimitWindow
    /\ now - last_submission_time[s] < RateLimitWindow
    /\ now > last_submission_time[s]

\* C5: whenever is_submitting is True, a submit attempt is rejected and
\* causes no duplicate scan, store write or notification, also when 3 or
\* more time units have passed since the last accepted attempt.
C5_SubmitRejectedWhileSubmitting ==
  [][\A s \in Sessions :
       (is_submitting[s]
          /\ \E f \in Forms : Submit(s, f) \/ ReentrantSubmit(s, f))
         => /\ pc'[s] = "idle"
            /\ ops'[s] = <<>>
            /\ last_submission_time'[s] = last_submission_time[s]]_vars

\* C6: when validate_all reports not-ok for an accepted submit attempt, the
\* attempt makes no duplicate scan, no store write and no notification; the
\* store is unchanged, is_submitting is False again and submission_complete
\* stays False.
C6_InvalidSubmitStopsAfterValidation ==
  [][\A s \in Sessions : \A f \in Forms :
       (Submit(s, f)
          /\ now - last_submission_time[s] >= RateLimitWindow
          /\ ~validate_all(f).ok)
         => /\ ops'[s] = <<"validate_all">>
            /\ outcome'[s] = "invalid"
            /\ pc'[s] = "idle"
            /\ store' = store
            /\ mail_log' = mail_log
            /\ ~is_submitting'[s]
            /\ ~submission_complete[s]
            /\ ~submission_complete'[s]]_vars

\* C6 witness: an accepted attempt ended at the validation.
C6_Witness ==
  \E s \in Sessions :
    /\ outcome[s] = "invalid"
    /\ last_submission_time[s] = now
    /\ ops[s] = <<"validate_all">>
    /\ ~is_submitting[s]

\* C7: when check_for_duplicates returns is_duplicate = True, save_submission
\* is not called and no notification is attempted; the store is unchanged,
\* is_submitting is False again and submission_complete stays False.
C7_DuplicateStopsBeforeSave ==
  [][\A s \in Sessions :
       (ScansNow(s) /\ duplicate_result'[s].is_duplicate)
         => /\ ops'[s] = <<"validate_all", "check_for_duplicates">>
            /\ outcome'[s] = "duplicate"
            /\ pc'[s] = "idle"
            /\ store' = store
            /\ mail_log' = mail_log
            /\ ~is_submitting'[s]
            /\ ~submission_complete[s]
            /\ ~submission_complete'[s]]_vars

\* C7 witness: an attempt ended at a duplicate found by the scan.
C7_Witness ==
  \E s \in Sessions :
    /\ outcome[s] = "duplicate"
    /\ duplicate_result[s] # None
    /\ duplicate_result[s].is_duplicate
    /\ ops[s] = <<"validate_all", "check_for_duplicates">>
    /\ store # {}

\* C8: when save_submission has succeeded and the confirmation email is not
\* sent, the attempt still ends in Success (submission_complete = True,
\* submitted_data = the saved record) and the saved document remains in the
\* store unmodified.
C8_UnsentEmailKeepsSuccess ==
  [][\A s \in Sessions :
       (NotifiesNow(s) /\ ~email_sent'[s])
         => /\ submission_complete'[s]
            /\ submitted_data'[s] = submission_data[s]
            /\ outcome'[s] = "success"
            /\ store' = store
            /\ [id |-> submission_data[s].enrollment_number,
                data |-> [submission_data[s] EXCEPT
                            !.submitted_at = ServerTime]] \in store']_vars

\* C8 witness: a submission is complete although its email was not sent.
C8_Witness ==
  \E s \in Sessions :
    /\ outcome[s] = "success"
    /\ ~email_sent[s]
    /\ submission_complete[s]
    /\ \E d \in store :
         d.data = [submitted_data[s] EXCEPT !.submitted_at = ServerTime]

\* C9: a confirmation email is attempted only after save_submission returned
\* success in the same attempt, at most once per successful submission; no
\* attempt that ended in validation failure, duplicate, store conflict or
\* store error has triggered a send.
C9_EmailOnlyAfterSuccessfulSave ==
  /\ \A s \in Sessions :
       /\ Sends(s) <= 1
       /\ Sends(s) = 1
            => /\ ops[s] = <<"validate_all", "check_for_duplicates",
                             "save_submission", "send_confirmation_email">>
               /\ save_exc[s] = "none"
               /\ error_msg[s] = ""
               /\ outcome[s] = "success"
       /\ outcome[s] \in {"invalid", "duplicate", "conflict", "error"}
            => Sends(s) = 0
  /\ \A i, j \in 1..Len(mail_log) :
       mail_log[i].enrollment_number = mail_log[j].enrollment_number => i = j
  /\ \A i \in 1..Len(mail_log) :
       \E d \in store :
         /\ d.id = mail_log[i].enrollment_number
         /\ d.data.email = mail_log[i].recipient_email

\* C9 witness: two submissions were saved, each with one send, one of which
\* failed, and an attempt has ended in a store conflict or error since.
C9_Witness ==
  /\ Len(mail_log) = 2
  /\ \E i \in 1..2 : ~mail_log[i].sent
  /\ \E s \in Sessions : outcome[s] \in {"conflict", "error"}

\* C10: when reading the store fails during the duplicate scan,
\* check_for_duplicates returns is_duplicate = False and the pipeline goes on
\* to save_submission, whose create-if-absent write still rejects an
\* enrollment number that is already stored.
C10_ScanFailsOpenSaveStillGuards ==
  [][\A s \in Sessions :
       /\ (ScansNow(s) /\ scan_raised'[s])
            => /\ ~duplicate_result'[s].is_duplicate
               /\ pc'[s] = "saving"
       /\ (SavesNow(s) /\ scan_raised[s]
             /\ DocExists(store, submission_data[s].enrollment_number))
            => /\ pc'[s] = "idle"
               /\ outcome'[s] \in {"conflict", "error"}
               /\ store' = store]_vars

\* C10 witness: the scan failed, the save was called and the store rejected
\* the enrollment number that was already there.
C10_Witness ==
  \E s \in Sessions :
    /\ scan_raised[s]
    /\ outcome[s] = "conflict"
    /\ save_exc[s] = "AlreadyExists"
    /\ ops[s] = <<"validate_all", "check_for_duplicates", "save_submission">>

\* C11: save_submission returns the "already submitted" message exactly when
\* the store rejected the create because a document already exists under
\* the enrollment number; every other backend failure, whatever its error
\* text, returns the generic database error message.
C11_AlreadySubmittedOnlyOnExistingDocument ==
  [][\A s \in Sessions :
       SavesNow(s)
         => /\ error_msg'[s] = AlreadySubmittedMsg
                 <=> /\ save_exc'[s] = "AlreadyExists"
                     /\ DocExists(store, submission_data[s].enrollment_number)
            /\ save_exc'[s] \notin {"none", "AlreadyExists"}
                 => error_msg'[s] = DatabaseErrorMsg]_vars

\* the call under examination is a call of check_for_duplicates
IsScanCall == call.fn = "check_for_duplicates"

\* the candidate data and the stored record d are equal on the field
EqualOn(data, d, field) ==
  IF field \in {"email", "full_name", "source_url"}
  THEN Lower(Strip(data[field])) = Lower(Strip(d.data[field]))
  ELSE Strip(data[field]) = Strip(d.data[field])

ComparedFields ==
  {"email", "enrollment_number", "full_name", "contact_number", "source_url"}

\* the name the result gives to a field
FieldLabel(field) ==
  CASE field = "email" -> "Email ID"
    [] field = "enrollment_number" -> "Enrollment Number"
    [] field = "full_name" -> "Full Name"
    [] field = "contact_number" -> "Contact Number"
    [] field = "source_url" -> "Source URL"

\* the labels of the fields on which data collides with the stored record d
CollidingFields(data, d) ==
  {FieldLabel(field) : field \in {g \in ComparedFields : EqualOn(data, d, g)}}

NoFieldBlank(data) == \A field \in FieldNames : Strip(data[field]) # <<>>

\* the positions of the stream whose record collides with the candidate
CollidingPositions(data, docs) ==
  {i \in 1..Len(docs) : CollidingFields(data, docs[i]) # {}}

Min(S) == CHOOSE i \in S : \A j \in S : i <= j

SeqRange(q) == {q[i] : i \in 1..Len(q)}

\* C12: check_for_duplicates stops at the first record, in the order of the
\* stream, that collides with the candidate on at least one field: the
\* result lists every colliding field of that record, each once, and no
\* field of any later record.
C12_StopsAtFirstCollidingRecord ==
  (IsScanCall /\ NoFieldBlank(call.data) /\ ~call.raised)
    => LET hits == CollidingPositions(call.data, call.docs)
           fields == call.result.duplicate_fields
       IN IF hits = {}
          THEN fields = <<>>
          ELSE /\ SeqRange(fields)
                    = CollidingFields(call.data, call.docs[Min(hits)])
               /\ Len(fields) = Cardinality(SeqRange(fields))

\* C12 witness: the stream delivered a record colliding on the email only,
\* then a record colliding on the contact number only, and the result lists
\* the email alone.
C12_Witness ==
  /\ IsScanCall
  /\ ~call.raised
  /\ Len(call.docs) >= 2
  /\ CollidingFields(call.data, call.docs[1]) = {"Email ID"}
  /\ CollidingFields(call.data, call.docs[2]) = {"Contact Number"}
  /\ call.result.duplicate_fields = <<"Email ID">>

ScanSkipped ==
  /\ ~call.raised
  /\ ~call.result.is_duplicate
  /\ call.result.duplicate_fields = <<>>

\* C14 as stated: if any field of the candidate (email, enrollment_number,
\* full_name, contact_number, project_name or source_url) is empty after
\* trimming, check_for_duplicates does not read the store and returns
\* is_duplicate = False with no duplicate fields.
C14_AnyBlankFieldSkipsScan ==
  (IsScanCall /\ \E field \in FieldNames : Strip(call.data[field]) = <<>>)
    => ScanSkipped

\* C14 amended: if any of the candidate's fields email, enrollment_number,
\* full_name, contact_number or source_url is empty after trimming,
\* check_for_duplicates does not read the store and returns
\* is_duplicate = False with no duplicate fields.
C14_BlankComparedFieldSkipsScan ==
  (IsScanCall /\ \E field \in ComparedFields : Strip(call.data[field]) = <<>>)
    => ScanSkipped

\* C14 witness: the source URL of the candidate is blank, the collection
\* holds a record equal to it on the other fields and fails at its first
\* read, and the call returned a fresh result.
C14_Witness ==
  /\ IsScanCall
  /\ Strip(call.data.source_url) = <<>>
  /\ call.failAt = 1
  /\ \E d \in store : EqualOn(call.data, d, "email")
  /\ ScanSkipped

\* the document d holds the inputs of the form f, trimmed, the email
\* lower-cased
HoldsInputsOf(d, f) ==
  /\ d.data.email = Lower(Strip(f.email))
  /\ Lower(d.data.email) = d.data.email
  /\ \A field \in FieldNames \ {"email"} : d.data[field] = Strip(f[field])
  /\ \A field \in FieldNames : Strip(d.data[field]) = d.data[field]

\* every field of the document passes its validator
PassesValidators(d) ==
  /\ validate_email(d.data.email).ok
  /\ validate_enrollment(d.data.enrollment_number).ok
  /\ validate_name(d.data.full_name).ok
  /\ validate_contact(d.data.contact_number).ok
  /\ validate_project_name(d.data.project_name).ok
  /\ validate_url(d.data.source_url).ok
  /\ Len(d.data.enrollment_number) = EnrollmentDigits
  /\ AllIn(d.data.enrollment_number, Digits)

C16_StoreOnlyGrowsByNewKeys ==
  [][\/ store' = store
     \/ \E d \in store' :
          /\ store' = store \cup {d}
          /\ ~DocExists(store, d.id)]_vars

\* C16 witness: two documents are stored; the first session has left its
\* success page by a reset, the second session's latest attempt was
\* rejected.
C16_Witness ==
  /\ Cardinality(store) = 2
  /\ outcome["s1"] = "success"
  /\ ~submission_complete["s1"]
  /\ outcome["s2"] \in {"wait", "duplicate", "conflict"}

\* the step in which session s leaves its success page
LeavesSuccessPage(s) == SuccessPageShown(s) /\ ~SuccessPageShown(s)'

\* C17: on entering Success the saved record is kept in submitted_data
\* until the "submit another" action; that action clears
\* submission_complete, submitted_data, is_submitting, form_data and
\* duplicate_check_result, returns the session to the idle form and leaves
\* the store unchanged.
C17_RecordKeptUntilReset ==
  [][\A s \in Sessions :
       /\ NotifiesNow(s)
            => /\ SuccessPageShown(s)'
               /\ submitted_data'[s] = submission_data[s]
               /\ \E d \in store' :
                    d.data = [submission_data[s] EXCEPT
                                !.submitted_at = ServerTime]
       /\ (SuccessPageShown(s) /\ ~LeavesSuccessPage(s))
            => submitted_data'[s] = submitted_data[s]
       /\ LeavesSuccessPage(s)
            => /\ ~submission_complete'[s]
               /\ submitted_data'[s] = None
               /\ ~is_submitting'[s]
               /\ ss_form_data'[s] = EmptyDict
               /\ ss_duplicate_check_result'[s] = None
               /\ pc[s] = "idle"
               /\ pc'[s] = "idle"
               /\ ~button_disabled'[s]
               /\ store' = store]_vars

\* C17 witness: a session that reached Success has left the success page:
\* its session state is cleared, its document is still stored.
C17_Witness ==
  \E s \in Sessions :
    /\ outcome[s] = "success"
    /\ pc[s] = "idle"
    /\ ~submission_complete[s]
    /\ submitted_data[s] = None
    /\ ~is_submitting[s]
    /\ ss_form_data[s] = EmptyDict
    /\ DocExists(store, saved_key[s])

\* C18: the rate-limit window is anchored on the last accepted submit
\* attempt only: an attempt made 3 or more time units after the last
\* accepted one is accepted and starts a new window, an attempt made earlier
\* is rejected and does not move the window, and no later step of an
\* attempt, whatever its outcome, and no reset moves the window.
C18_WindowAnchoredOnAcceptedAttempt ==
  [][\A s \in Sessions :
       /\ \A f \in Forms :
            Submit(s, f)
              => IF now - last_submission_time[s] >= RateLimitWindow
                 THEN /\ last_submission_time'[s] = now
                      /\ outcome'[s] \in {"invalid", "running"}
                      /\ ops'[s] = <<"validate_all">>
                 ELSE /\ last_submission_time'[s] = last_submission_time[s]
                      /\ outcome'[s] = "wait"
       /\ last_submission_time'[s] # last_submission_time[s]
            => /\ \E f \in Forms : Submit(s, f)
               /\ last_submission_time'[s] = now
               /\ now - last_submission_time[s] >= RateLimitWindow]_vars

\* C18 witness: the first session's attempt with FormA was accepted and
\* ended in Success, and its next attempt was accepted exactly at the end of
\* the window that attempt started.
C18_Witness ==
  /\ \E d \in store : d = StoredDoc(FormA)
  /\ last_submission_time["s1"] = 2 * RateLimitWindow
  /\ outcome["s1"] = "invalid"
  /\ ops["s1"] = <<"validate_all">>

\* C19: when the confirmation email of a saved submission was not sent, the
\* page the user is left with carries the email-not-sent warning; the
\* success page says that a confirmation email has been sent only when the
\* send for that submission returned True.
C19_SuccessPageTellsWhetherEmailWasSent ==
  \A s \in Sessions :
    SuccessPageShown(s)
      => /\ ~email_sent[s] => EmailNotSentWarning \in SuccessPageNotices(s)
         /\ EmailSentNotice \in SuccessPageNotices(s) => email_sent[s]

\* the call under examination is a call of validate_all
IsValidateCall == call.fn = "validate_all"

\* the field validators in the order of validate_all, applied to data
FieldResults(data) ==
  << [name |-> "Email", res |-> validate_email(data.email)],
     [name |-> "Enrollment", res |-> validate_enrollment(data.enrollment_number)],
     [name |-> "Name", res |-> validate_name(data.full_name)],
     [name |-> "Contact", res |-> validate_contact(data.contact_number)],
     [name |-> "Project Name", res |-> validate_project_name(data.project_name)],
     [name |-> "URL", res |-> validate_url(data.source_url)] >>

\* the positions of the failing fields
FailingFields(data) ==
  {i \in 1..Len(FieldResults(data)) : ~FieldResults(data)[i].res.ok}

\* the k-th smallest element of the set S of numbers
Nth(S, k) == CHOOSE i \in S : Cardinality({j \in S : j < i}) = k - 1

\* C20: validate_all runs all six field validators without short-circuit:
\* it returns ok if and only if every field validator returns ok, and
\* otherwise exactly one message per failing field, in the order email,
\* enrollment_number, full_name, contact_number, project_name, source_url.
C20_ValidateAllCollectsEveryFailure ==
  IsValidateCall
    => LET failing == FailingFields(call.data)
           errors == call.result.errors
       IN /\ call.result.ok <=> failing = {}
          /\ Len(errors) = Cardinality(failing)
          /\ \A k \in 1..Len(errors) :
               LET v == FieldResults(call.data)[Nth(failing, k)] IN
                 errors[k] = <<v.name, v.res.msg>>

\* C20 witness: the email, the contact number and the source URL of the
\* record fail, the other fields pass, and the three messages come in that
\* order.
C20_Witness ==
  /\ IsValidateCall
  /\ FailingFields(call.data) = {1, 4, 6}
  /\ ~call.result.ok
  /\ Len(call.result.errors) = 3
  /\ call.result.errors[1][1] = "Email"
  /\ call.result.errors[2][1] = "Contact"
  /\ call.result.errors[3][1] = "URL"

\* the call under examination is a call of validate_enrollment
IsEnrollmentCall == call.fn = "validate_enrollment"

\* the string is exactly 12 ASCII digits and nothing else
TwelveAsciiDigits(raw) == Len(raw) = 12 /\ AllIn(raw, Digits)

\* C21: for every input string that is not exactly 12 ASCII digits and
\* nothing else, strings with surrounding white space included,
\* validate_enrollment returns not-ok.
C21_OnlyTwelveAsciiDigitsPass ==
  (IsEnrollmentCall /\ ~TwelveAsciiDigits(call.raw)) => ~call.result.ok

\* the call under examination is a call of validate_url
IsUrlCall == call.fn = "validate_url"

\* the trimmed string u starts with the scheme (in any case), goes on from
\* position k with one character that is neither white space nor one of
\* / ? #, and has no white space after it
WellFormedFrom(u, scheme, k) ==
  /\ StartsWith(Lower(u), scheme)
  /\ Len(u) >= k
  /\ u[k] \notin Whitespace \cup {"/", "?", "#"}
  /\ \A i \in (k + 1)..Len(u) : u[i] \notin Whitespace

\* the strings C22 says validate_url accepts, after trimming
WellFormedUrl(u) ==
  /\ u # <<>>
  /\ Len(u) <= 2048
  /\ \/ WellFormedFrom(u, <<"h","t","t","p",":","/","/">>, 8)
     \/ WellFormedFrom(u, <<"h","t","t","p","s",":","/","/">>, 9)

\* C22: validate_url returns ok exactly for the strings that, after
\* trimming, are non-empty, at most 2048 characters long, start with http://
\* or https://, go on with one character that is neither white space nor one
\* of / ? #, and then hold only non-white-space characters; every URL with
\* white space inside it is rejected.
C22_UrlOkIffWellFormed ==
  IsUrlCall
    => /\ call.result.ok <=> WellFormedUrl(Strip(call.raw))
       /\ (\E i \in 1..Len(Strip(call.raw)) : Strip(call.raw)[i] \in Whitespace)
            => ~call.result.ok

\* the call under examination is a call of validate_contact
IsContactCall == call.fn = "validate_contact"

\* the string is 10 digits, 0 to 9
TenDigits(c) == Len(c) = 10 /\ AllIn(c, Digits)

AllIdentical(c) == \A i, j \in 1..Len(c) : c[i] = c[j]

\* C23: validate_contact returns ok exactly for the strings that after
\* trimming are 10 digits of which at least two differ; every 10-digit
\* string whose digits are all identical is rejected.
C23_ContactOkIffTenDigitsNotAllIdentical ==
  IsContactCall
    => LET contact == Strip(call.raw) IN
         /\ call.result.ok <=> (TenDigits(contact) /\ ~AllIdentical(contact))
         /\ (TenDigits(contact) /\ AllIdentical(contact)) => ~call.result.ok

\* no run of the session is in progress, and the session shows the success
\* page or the form with is_submitting = False
Finished(s) ==
  /\ pc[s] = "idle"
  /\ submission_complete[s] \/ ~is_submitting[s]

\* C24: every accepted submit attempt eventually finishes, each store and
\* mail call returning or raising: it ends in Success with
\* submission_complete = True or back at the form with is_submitting = False;
\* no path leaves is_submitting = True with submission_complete = False.
C24_AcceptedAttemptFinishes ==
  \A s \in Sessions :
    /\ (pc[s] # "idle") ~> Finished(s)
    /\ [](pc[s] = "idle" => Finished(s))

\* the fields the docstring of check_for_duplicates and the page's
\* "Duplicate Prevention" text name
KeyFields == {"enrollment_number", "email", "contact_number"}

\* C25: check_for_duplicates checks enrollment_number, email and
\* contact_number: a candidate is reported as duplicate exactly when a stored
\* record collides with it on one of these three fields; a candidate that
\* shares only its full name or only its source URL with a stored record is
\* not reported.
C25_DuplicateIffKeyFieldCollides ==
  (IsScanCall /\ NoFieldBlank(call.data) /\ ~call.raised)
    => (call.result.is_duplicate
          <=> \E d \in store : \E field \in KeyFields :
                EqualOn(call.data, d, field))

\* C26: every DuplicateCheckResult returned by check_for_duplicates is
\* consistent: is_duplicate is True if and only if duplicate_fields is
\* non-empty, and messages has one entry per entry of duplicate_fields, also
\* when the scan fails with a store or data error part-way through a record.
C26_ResultIsConsistent ==
  IsScanCall
    => /\ call.result.is_duplicate <=> call.result.duplicate_fields # <<>>
       /\ Len(call.result.messages) = Len(call.result.duplicate_fields)

\* C27: between submit attempts, in every reachable session state,
\* submission_complete is True if and only if submitted_data is non-null;
\* when it is True, submitted_data equals a document present in the store
\* under its enrollment_number; and is_submitting is True only when
\* submission_complete is True.
C27_SessionStateBetweenAttempts ==
  \A s \in Sessions :
    pc[s] = "idle"
      => /\ submission_complete[s] <=> submitted_data[s] # None
         /\ submission_complete[s]
              => \E d \in store :
                   /\ d.id = submitted_data[s].enrollment_number
                   /\ d.data = submitted_data[s]
         /\ is_submitting[s] => submission_complete[s]

\* C28: the "submit another" reset leaves last_submission_time unchanged,
\* so the rate limiter survives the reset: the submit that follows the reset
\* fewer than 3 time units after the previous accepted submit is rejected
\* with the wait signal and changes nothing.
C28_ResetKeepsRateLimiter ==
  [][\A s \in Sessions :
       /\ LeavesSuccessPage(s)
            => last_submission_time'[s] = last_submission_time[s]
       /\ \A f \in Forms :
            (/\ Submit(s, f)
             /\ outcome[s] = "success"
             /\ \E i \in 1..Len(mail_log) :
                  /\ mail_log[i].session = s
                  /\ now - last_submission_time[s] < RateLimitWindow)
              => /\ outcome'[s] = "wait"
                 /\ ops'[s] = <<>>
                 /\ pc'[s] = "idle"
                 /\ store' = store
                 /\ last_submission_time'[s] = last_submission_time[s]]_vars

\* C28 witness: the first session's only accepted attempt, at the initial
\* time, ended in Success with FormA; the session left the success page and
\* its next submit, at the same time, was rejected.
C28_Witness ==
  /\ now = RateLimitWindow
  /\ last_submission_time["s1"] = now
  /\ StoredDoc(FormA) \in store
  /\ ~submission_complete["s1"]
  /\ submitted_data["s1"] = None
  /\ outcome["s1"] = "wait"

====
